---- MODULE Spec2Model ----
(***************************************************************************)
(* Model of src/flask_app.py: the /scrape endpoint and its cascade of six  *)
(* extraction strategies, the text normalizer clean_text, the URL          *)
(* validation done with urllib.parse.urlparse, and the authors, keywords   *)
(* and images that extract_metadata collects.                              *)
(*                                                                         *)
(* Strings are sequences of one-character strings, so that lengths,        *)
(* regular-expression substitutions and URL splitting are computed.        *)
(*                                                                         *)
(* Lines 551-555 of the source are mis-indented (the file as stored does   *)
(* not compile).  The model reads them the only way the statements can be  *)
(* nested: the conversion loop belongs to the success path of the try      *)
(* block and `return jsonify(result)` is a statement of the loop body.     *)
(***************************************************************************)
EXTENDS Integers, Sequences, FiniteSets, TLC

(***************************************************************************)
(* Bounds of the model.                                                    *)
(***************************************************************************)
MaxUrlLen == 5
MaxTokens == 3
MaxHits == 2
MaxKwLen == 3
MaxImgs == 2

(***************************************************************************)
(* Program constants.                                                      *)
(***************************************************************************)
MinLenLibrary == 100
MinLenSoup == 50
MaxAttempts == 3
LastAttempt == 2

(***************************************************************************)
(* Characters.                                                             *)
(***************************************************************************)
UPPER == <<"A","B","C","D","E","F","G","H","I","J","K","L","M",
           "N","O","P","Q","R","S","T","U","V","W","X","Y","Z">>
LOWER == <<"a","b","c","d","e","f","g","h","i","j","k","l","m",
           "n","o","p","q","r","s","t","u","v","w","x","y","z">>
DIGITS == {"0","1","2","3","4","5","6","7","8","9"}

Range(s) == { s[i] : i \in DOMAIN s }

UpperSet == Range(UPPER)
LowerSet == Range(LOWER)
IsUpper(c) == c \in UpperSet
IsLower(c) == c \in LowerSet
IsAlpha(c) == IsUpper(c) \/ IsLower(c)

\* str.lower() / re.I case folding of one ASCII character
LowerOf == [ c \in { UPPER[i] : i \in DOMAIN UPPER } |->
               LOWER[CHOOSE i \in DOMAIN UPPER : UPPER[i] = c] ]
Lower(c) == IF c \in DOMAIN LowerOf THEN LowerOf[c] ELSE c

\* the characters the regular expression class \s and str.strip() treat as white space
IsSpace(c) == c \in {" ", "\t", "\n", "\r", "\f"}

(***************************************************************************)
(* clean_text (lines 190-198).                                             *)
(***************************************************************************)
\* the alternatives of the boilerplate pattern, in the pattern's order, case-folded
BOILERPLATE ==
  << <<"a","c","c","e","p","t"," ","a","l","l"," ","c","o","o","k","i","e","s">>,
     <<"s","u","b","s","c","r","i","b","e"," ","t","o"," ",
       "n","e","w","s","l","e","t","t","e","r">>,
     <<"s","i","g","n"," ","u","p">>,
     <<"l","o","g","i","n">>,
     <<"r","e","g","i","s","t","e","r">> >>

\* re.sub(r'\s+', ' ', text): every maximal run of white space becomes one space
\* (a white-space character that follows another one is dropped, the first of
\* a run becomes a space)
FollowsSpace(text, i) == i > 1 /\ IsSpace(text[i]) /\ IsSpace(text[i - 1])
NotDropped(m) == ~m[2]
sub_whitespace(text) ==
  LET marked == [ i \in 1..Len(text) |->
                    << IF IsSpace(text[i]) THEN " " ELSE text[i], FollowsSpace(text, i) >> ]
      kept == SelectSeq(marked, NotDropped)
  IN  [ i \in 1..Len(kept) |-> kept[i][1] ]

\* does alternative p of the pattern match text at position i, ignoring case
MatchAt(text, i, p) ==
  /\ i + Len(p) - 1 <= Len(text)
  /\ \A k \in 1..Len(p) : Lower(text[i + k - 1]) = p[k]

MatchesAt(text, i) == \E j \in DOMAIN BOILERPLATE : MatchAt(text, i, BOILERPLATE[j])

\* the alternative the pattern takes at a position where it matches: the first
FirstAlternative(text, i) ==
  CHOOSE j \in DOMAIN BOILERPLATE :
    /\ MatchAt(text, i, BOILERPLATE[j])
    /\ \A k \in 1..(j - 1) : ~MatchAt(text, i, BOILERPLATE[k])

\* re.sub(r'(...|...)', '', text, flags=re.I) from position i on: the leftmost
\* match at or after i is deleted and the scan resumes after it, so text that
\* deletions bring together is not scanned again
RECURSIVE sub_boilerplate(_, _)
sub_boilerplate(text, i) ==
  LET hits == { k \in i..Len(text) : MatchesAt(text, k) }
  IN  IF hits = {} THEN SubSeq(text, i, Len(text))
      ELSE LET k == CHOOSE k \in hits : \A h \in hits : k <= h
               p == BOILERPLATE[FirstAlternative(text, k)]
           IN  SubSeq(text, i, k - 1) \o sub_boilerplate(text, k + Len(p))

\* str.strip()
strip(text) ==
  LET keep == { i \in DOMAIN text : ~IsSpace(text[i]) }
  IN  IF keep = {} THEN <<>>
      ELSE LET lo == CHOOSE i \in keep : \A j \in keep : i <= j
               hi == CHOOSE i \in keep : \A j \in keep : j <= i
           IN  SubSeq(text, lo, hi)

clean_text(text) ==
  IF text = <<>> THEN <<>>
  ELSE strip(sub_boilerplate(sub_whitespace(text), 1))

(***************************************************************************)
(* urllib.parse.urlparse as scrape uses it (lines 514-515): the scheme and *)
(* the network location of the URL, or ValueError.                         *)
(***************************************************************************)
\* position of the first occurrence of a character of cs at or after from, else 0
FindFirst(url, cs, from) ==
  LET hits == { i \in DOMAIN url : i >= from /\ url[i] \in cs }
  IN  IF hits = {} THEN 0 ELSE CHOOSE i \in hits : \A j \in hits : i <= j

IsSchemeChar(c) == IsAlpha(c) \/ c \in DIGITS \/ c \in {"+", "-", "."}

\* urlsplit: the text before the first ':' is the scheme when it starts with a
\* letter and holds only scheme characters
SchemeEnd(url) ==
  LET i == FindFirst(url, {":"}, 1)
  IN  IF /\ i > 1
         /\ IsAlpha(url[1])
         /\ \A k \in 1..(i - 1) : IsSchemeChar(url[k])
      THEN i ELSE 0

urlparse_scheme(url) ==
  LET i == SchemeEnd(url)
  IN  IF i = 0 THEN <<>> ELSE [k \in 1..(i - 1) |-> Lower(url[k])]

\* urlsplit: what follows the scheme; when it starts with '//' the network
\* location runs up to the next '/', '?' or '#'
AfterScheme(url) ==
  LET i == SchemeEnd(url)
  IN  IF i = 0 THEN url ELSE SubSeq(url, i + 1, Len(url))

urlparse_netloc(url) ==
  LET rest == AfterScheme(url)
  IN  IF Len(rest) >= 2 /\ rest[1] = "/" /\ rest[2] = "/"
      THEN LET d == FindFirst(rest, {"/", "?", "#"}, 3)
           IN  SubSeq(rest, 3, IF d = 0 THEN Len(rest) ELSE d - 1)
      ELSE <<>>

\* urlsplit raises ValueError("Invalid IPv6 URL") on an unbalanced bracket
urlparse_raises(url) ==
  LET netloc == urlparse_netloc(url)
  IN  \/ "[" \in Range(netloc) /\ "]" \notin Range(netloc)
      \/ "]" \in Range(netloc) /\ "[" \notin Range(netloc)

(***************************************************************************)
(* Inputs: the url parameter of a request and the page behind it.          *)
(***************************************************************************)
SeqsUpTo(S, n) == UNION { [1..k -> S] : k \in 0..n }

RECURSIVE Rep(_, _)
Rep(s, n) == IF n = 0 THEN <<>> ELSE s \o Rep(s, n - 1)

\* the url parameter; the empty sequence stands for an absent or empty
\* parameter, which line 510 treats alike.  The alphabet holds a letter, the
\* two separators and an opening bracket (no closing one, so that a bracket in
\* a network location is always unbalanced)
UrlAlphabet == {"h", ":", "/", "["}
Urls == SeqsUpTo(UrlAlphabet, MaxUrlLen)

\* the text an extractor finds on the page: a run of plain characters around
\* the strategies' thresholds, followed by boilerplate phrases
LoginWord == <<" ", "L", "o", "g", "i", "n">>
PhraseCounts == {0, 1}
PadLens == {0, MinLenSoup, MinLenSoup + 1, MinLenLibrary, MinLenLibrary + 1}
Plain(k) == [ i \in 1..k |-> "a" ]
PageTexts == { Plain(k) \o Rep(LoginWord, m) : k \in PadLens, m \in PhraseCounts }

\* the src attributes of the page's img elements, in document order
ImgSrcLists == { <<>>, << <<"/", "h">> >>, << <<"/", "/", "[">> >> }

\* a page: its extractable text, the title and the authors its metadata
\* yields ("" and <<>> when there is none), and its img elements
Pages == [ text : PageTexts,
           title : {"", "T"},
           authors : {<<>>, <<"A">>},
           imgs : ImgSrcLists ]
NoPage == [ text |-> <<>>, title |-> "", authors |-> <<>>, imgs |-> <<>> ]

(***************************************************************************)
(* extract_metadata (lines 80-175), as far as the strategies depend on it: *)
(* the title, the authors, and the exception urljoin raises at line 154.   *)
(***************************************************************************)
ImageCap == 10

\* urllib.parse.urljoin(base, src): an empty src gives base back unparsed;
\* otherwise both are split as urlparse splits them, which raises ValueError
\* on an unbalanced bracket in the network location
urljoin_raises(base, src) ==
  /\ base # <<>>
  /\ src # <<>>
  /\ urlparse_raises(base) \/ urlparse_raises(src)

\* lines 153-154: the first ten img elements are joined with the page URL
extract_metadata_raises(page, u) ==
  \E i \in 1..Len(page.imgs) : i <= ImageCap /\ urljoin_raises(u, page.imgs[i])

\* str.split(sep) for a one-character separator
RECURSIVE Split(_, _)
Split(s, sep) ==
  LET i == FindFirst(s, {sep}, 1)
  IN  IF i = 0 THEN << s >>
      ELSE << SubSeq(s, 1, i - 1) >> \o Split(SubSeq(s, i + 1, Len(s)), sep)

\* sep.join(parts)
RECURSIVE Join(_, _)
Join(parts, sep) ==
  IF parts = <<>> THEN <<>>
  ELSE IF Len(parts) = 1 THEN parts[1]
  ELSE parts[1] \o << sep >> \o Join(Tail(parts), sep)

\* urlsplit: what follows the network location (the inputs carry no params,
\* query or fragment)
urlparse_path(url) ==
  LET rest == AfterScheme(url)
  IN  IF Len(rest) >= 2 /\ rest[1] = "/" /\ rest[2] = "/"
      THEN LET d == FindFirst(rest, {"/", "?", "#"}, 3)
           IN  IF d = 0 THEN <<>> ELSE SubSeq(rest, d, Len(rest))
      ELSE rest

\* urllib.parse.uses_relative and uses_netloc, as far as they hold schemes a
\* fetched page or its references can carry; both hold the empty scheme
uses_relative ==
  { <<>>, <<"h", "t", "t", "p">>, <<"h", "t", "t", "p", "s">>,
    <<"f", "t", "p">>, <<"f", "i", "l", "e">> }
uses_netloc == uses_relative

\* urlunparse of a scheme, a network location and a path
urlunparse(scheme, netloc, path) ==
  LET slashes == Len(path) >= 2 /\ path[1] = "/" /\ path[2] = "/"
      located ==
        IF netloc # <<>> \/ (scheme # <<>> /\ scheme \in uses_netloc /\ ~slashes)
        THEN <<"/", "/">> \o netloc
               \o (IF path # <<>> /\ path[1] # "/" THEN <<"/">> \o path ELSE path)
        ELSE path
  IN  IF scheme # <<>> THEN scheme \o <<":">> \o located ELSE located

\* urljoin's loop over the segments: '..' drops the segment before it, '.' is
\* skipped
RECURSIVE resolved_path(_, _)
resolved_path(segments, acc) ==
  IF segments = <<>> THEN acc
  ELSE LET seg == Head(segments)
       IN  resolved_path(Tail(segments),
             IF seg = <<".", ".">>
             THEN (IF acc = <<>> THEN acc ELSE SubSeq(acc, 1, Len(acc) - 1))
             ELSE IF seg = <<".">> THEN acc
             ELSE Append(acc, seg))

\* the inner segments that urljoin keeps
filter_segments(segments, rooted) ==
  LET n == Len(segments)
      marked == [ i \in 1..n |->
                    << segments[i],
                       ~(rooted \/ i = 1 \/ i = n \/ segments[i] # <<>>) >> ]
      filtered == SelectSeq(marked, NotDropped)
  IN  [ i \in 1..Len(filtered) |-> filtered[i][1] ]

base_parts(bpath) ==
  LET parts == Split(bpath, "/")
  IN  IF parts[Len(parts)] # <<>> THEN SubSeq(parts, 1, Len(parts) - 1) ELSE parts

resolve(segs) ==
  LET walked == resolved_path(segs, <<>>)
  IN  IF segs[Len(segs)] \in { <<".">>, <<".", ".">> } THEN Append(walked, <<>>) ELSE walked

join_paths(bpath, path) ==
  LET joined == Join(resolve(filter_segments(
                  IF path[1] = "/" THEN Split(path, "/")
                  ELSE base_parts(bpath) \o Split(path, "/"), path[1] = "/")), "/")
  IN  IF joined = <<>> THEN <<"/">> ELSE joined

url_scheme(base, u) ==
  IF urlparse_scheme(u) = <<>> THEN urlparse_scheme(base) ELSE urlparse_scheme(u)

\* urllib.parse.urljoin(base, url) where it does not raise
urljoin(base, u) ==
  IF base = <<>> THEN u
  ELSE IF u = <<>> THEN base
  ELSE IF url_scheme(base, u) # urlparse_scheme(base) \/ url_scheme(base, u) \notin uses_relative
  THEN u
  ELSE IF url_scheme(base, u) \in uses_netloc /\ urlparse_netloc(u) # <<>>
  THEN urlunparse(url_scheme(base, u), urlparse_netloc(u), urlparse_path(u))
  ELSE urlunparse(url_scheme(base, u),
                  IF url_scheme(base, u) \in uses_netloc
                  THEN urlparse_netloc(base) ELSE urlparse_netloc(u),
                  IF urlparse_path(u) = <<>> THEN urlparse_path(base)
                  ELSE join_paths(urlparse_path(base), urlparse_path(u)))

\* Python's None where a string may stand, and a tag the document lacks;
\* neither is a string of characters
None == << "None" >>
NoTag == << "no tag" >>

\* x in xs
In(x, xs) == \E i \in DOMAIN xs : xs[i] = x

\* lines 117-121: the elements the author selectors find, selector by
\* selector; an element gives its content attribute or else its stripped
\* text, and a value is appended when it is non-empty and not yet listed
RECURSIVE collect_authors(_, _)
collect_authors(elements, authors) ==
  IF elements = <<>> THEN authors
  ELSE LET elem == Head(elements)
           author == IF elem.content # None /\ elem.content # <<>>
                     THEN elem.content ELSE strip(elem.text)
       IN  collect_authors(Tail(elements),
             IF author # <<>> /\ ~In(author, authors)
             THEN Append(authors, author) ELSE authors)

\* lines 143-145: the content of the keywords meta tag ('' when the tag has
\* none) is split at commas and each piece is stripped
extract_keywords(keywords_meta) ==
  IF keywords_meta = NoTag THEN <<>>
  ELSE LET content == IF keywords_meta = None THEN <<>> ELSE keywords_meta
           pieces == Split(content, ",")
       IN  [ i \in DOMAIN pieces |-> strip(pieces[i]) ]

\* lines 153-156: each of the first ten img elements is joined with the page
\* URL and appended unless it is listed already
RECURSIVE collect_images(_, _, _)
collect_images(srcs, u, images) ==
  IF srcs = <<>> THEN images
  ELSE LET img_url == urljoin(u, Head(srcs))
       IN  collect_images(Tail(srcs), u,
             IF ~In(img_url, images) THEN Append(images, img_url) ELSE images)

\* lines 148-158: the content of the og:image meta tag (None when the tag has
\* no content attribute) is appended as it stands, then the img elements
extract_images(og_image, srcs, u) ==
  collect_images(SubSeq(srcs, 1, IF Len(srcs) < ImageCap THEN Len(srcs) ELSE ImageCap),
                 u,
                 IF og_image = NoTag THEN <<>> ELSE << og_image >>)

\* a parsed document as extract_metadata reads it: the elements the author
\* selectors match, the keywords meta tag, the og:image meta tag and the src
\* attributes of the img elements
NoDoc == [ author_elems |-> <<>>, keywords_meta |-> NoTag,
           og_image |-> NoTag, imgs |-> <<>> ]

\* the authors, keywords and images of the metadata dict (lines 87-97, 175);
\* kind is "raise" when urljoin raised at line 154
NoMetadata == [ kind |-> "None", authors |-> <<>>, keywords |-> <<>>, images |-> <<>> ]

extract_metadata(doc, u) ==
  IF extract_metadata_raises(doc, u)
  THEN [ kind |-> "raise", authors |-> <<>>, keywords |-> <<>>, images |-> <<>> ]
  ELSE [ kind |-> "dict",
         authors |-> collect_authors(doc.author_elems, <<>>),
         keywords |-> extract_keywords(doc.keywords_meta),
         images |-> extract_images(doc.og_image, doc.imgs, u) ]

(***************************************************************************)
(* What a strategy hands back: a result dict, None, or an exception.       *)
(***************************************************************************)
NoneResult == [ kind |-> "None" ]
Raised == [ kind |-> "raise" ]

BaseKeys == << "method", "title", "authors", "publish_date", "text",
               "top_image", "images", "keywords", "summary" >>

\* a result dict: the fields the claims read, its keys in insertion order and
\* the keys whose value is a Python set
Dict(method, title, authors, text, moreKeys, sets) ==
  [ kind |-> "dict", method |-> method, title |-> title, authors |-> authors,
    text |-> text, success |-> TRUE, keys |-> BaseKeys \o moreKeys, sets |-> sets ]

IsDict(r) == r.kind = "dict"

(***************************************************************************)
(* The six strategies (lines 200-497).  net: the fetch yields a response;  *)
(* lib: the library or parser raises nothing; images_set: the article      *)
(* library hands back the images as a Python set.                          *)
(***************************************************************************)
newspaper_except(outcome) == IF outcome.kind = "raise" THEN NoneResult ELSE outcome
trafilatura_except(outcome) == IF outcome.kind = "raise" THEN NoneResult ELSE outcome
readability_except(outcome) == IF outcome.kind = "raise" THEN NoneResult ELSE outcome
beautifulsoup_except_leak(outcome) == outcome
beautifulsoup_except(outcome) == IF outcome.kind = "raise" THEN NoneResult ELSE outcome
selenium_except(outcome) == IF outcome.kind = "raise" THEN NoneResult ELSE outcome
raw_except(outcome) == IF outcome.kind = "raise" THEN NoneResult ELSE outcome

\* lines 203-227: download and parse raise on failure; the text is tested
\* before it is cleaned
newspaper_body(page, net, lib, images_set) ==
  IF ~net \/ ~lib THEN Raised
  ELSE IF page.text # <<>> /\ Len(page.text) > MinLenLibrary
       THEN Dict("newspaper3k", page.title, page.authors, clean_text(page.text),
                 <<"source", "success">>,
                 IF images_set THEN {"images"} ELSE {})
       ELSE NoneResult

\* lines 235-255: fetch_url returns None on failure, which skips the extraction
trafilatura_body(page, net, lib) ==
  IF ~net THEN NoneResult
  ELSE IF ~lib THEN Raised
  ELSE IF page.text # <<>> /\ Len(page.text) > MinLenLibrary
       THEN Dict("trafilatura", page.title,
                 IF page.authors = <<>> THEN <<>> ELSE <<page.authors[1]>>,
                 clean_text(page.text), <<"source", "success">>, {})
       ELSE NoneResult

\* lines 263-288
readability_body(page, u, net, lib) ==
  IF ~net \/ ~lib \/ extract_metadata_raises(page, u) THEN Raised
  ELSE IF page.text # <<>> /\ Len(page.text) > MinLenLibrary
       THEN Dict("readability", IF page.title # "" THEN page.title ELSE "short_title",
                 page.authors, clean_text(page.text), <<"source", "success">>, {})
       ELSE NoneResult

\* lines 310-375: what follows the retry loop
beautifulsoup_extract(page, u, lib) ==
  IF ~lib \/ extract_metadata_raises(page, u) THEN Raised
  ELSE IF page.text # <<>> /\ Len(page.text) > MinLenSoup
       THEN Dict("beautifulsoup", page.title, page.authors, clean_text(page.text),
                 <<"tables", "description", "source", "success">>, {})
       ELSE NoneResult

\* lines 401-460: what follows the scroll, inside the with block
selenium_extract(page, u, lib) ==
  IF ~lib \/ extract_metadata_raises(page, u) THEN Raised
  ELSE IF page.text # <<>> /\ Len(page.text) > MinLenSoup
       THEN Dict("selenium", page.title, page.authors, clean_text(page.text),
                 <<"tables", "source", "success">>, {})
       ELSE NoneResult

\* lines 468-494: no threshold; placeholders for a missing title or author;
\* the only calls that raise are the fetch and extract_metadata
raw_body(page, u, net) ==
  IF ~net \/ extract_metadata_raises(page, u) THEN Raised
  ELSE Dict("raw",
            IF page.title # "" THEN page.title ELSE "Unknown Title",
            IF page.authors # <<>> THEN page.authors ELSE <<"Unknown">>,
            clean_text(page.text), <<"tables", "source", "success">>, {})

(***************************************************************************)
(* State.                                                                  *)
(***************************************************************************)
VARIABLES
  pc,        \* where the worker is: idle, in a strategy, building the response, done
  url,       \* the url parameter of the request being served
  page,      \* the page behind it
  idx,       \* position of the orchestrator's loop over the strategies (1..6)
  attempt,   \* loop variable of the retry loop of scrape_with_beautifulsoup
  result,    \* the orchestrator's variable result
  driver,    \* get_selenium_driver's variable driver is set
  sessions,  \* number of browser sessions that are open
  response,  \* the HTTP response of the request
  encoded,   \* the argument of the jsonify call of the success path
  invoked,   \* history: the strategies invoked for this request, in order
  outcomes,  \* history: what each invoked strategy handed to the orchestrator
  last,      \* history: how the strategy that returned last went
  escaped,   \* history: the strategies whose exception reached the orchestrator
  fetches,   \* history: number of network fetches of this request
  sleeps,    \* history: number of inter-strategy delays of this request
  ctPc,      \* normalizer harness: position
  ctIn,      \* normalizer harness: the input x
  ctOnce,    \* normalizer harness: clean_text(x)
  ctTwice,   \* normalizer harness: clean_text(clean_text(x))
  mdPc,      \* metadata harness: position
  mdUrl,     \* metadata harness: the page URL
  mdDoc,     \* metadata harness: the parsed document
  mdOut      \* metadata harness: what extract_metadata returned

vars == << pc, url, page, idx, attempt, result, driver, sessions, response, encoded,
           invoked, outcomes, last, escaped, fetches, sleeps,
           ctPc, ctIn, ctOnce, ctTwice, mdPc, mdUrl, mdDoc, mdOut >>

ctVars == << ctPc, ctIn, ctOnce, ctTwice >>

mdVars == << mdPc, mdUrl, mdDoc, mdOut >>

\* lines 522-529
STRATEGIES == << "newspaper3k", "trafilatura", "readability",
                 "beautifulsoup", "selenium", "raw" >>

SeleniumPcs == { "sel_setup", "sel_get", "sel_wait", "sel_scroll", "sel_extract" }

NoResponse == [ status |-> 0, error |-> "", success |-> FALSE, url |-> <<>>,
                has_result |-> FALSE ]

Resp(status, error, success, u, has_result) ==
  [ status |-> status, error |-> error, success |-> success, url |-> u,
    has_result |-> has_result ]

\* name: the strategy; raised: something raised inside it; fetched: its fetch
\* yielded a response; quits: the driver.quit() calls it made
NoLast == [ name |-> "", raised |-> FALSE, fetched |-> FALSE, quits |-> 0 ]

Init ==
  /\ pc = "idle"
  /\ url = <<>>
  /\ page = NoPage
  /\ idx = 1
  /\ attempt = 0
  /\ result = NoneResult
  /\ driver = FALSE
  /\ sessions = 0
  /\ response = NoResponse
  /\ encoded = NoneResult
  /\ invoked = <<>>
  /\ outcomes = <<>>
  /\ last = NoLast
  /\ escaped = {}
  /\ fetches = 0
  /\ sleeps = 0
  /\ ctPc = "off"
  /\ ctIn = <<>>
  /\ ctOnce = <<>>
  /\ ctTwice = <<>>
  /\ mdPc = "off"
  /\ mdUrl = <<>>
  /\ mdDoc = NoDoc
  /\ mdOut = NoMetadata

(***************************************************************************)
(* scrape: validation (lines 503-519).                                     *)
(***************************************************************************)
\* lines 510-516, and the ValueError of urlparse that line 557 catches
validate_url(u) ==
  IF u = <<>> THEN "required"
  ELSE IF urlparse_raises(u) THEN "raise"
  ELSE IF urlparse_scheme(u) = <<>> \/ urlparse_netloc(u) = <<>> THEN "invalid"
  ELSE "ok"

scrape_begin(u) ==
  /\ url' = u
  /\ LET v == validate_url(u)
     IN  IF v = "ok"
         THEN /\ page' \in Pages
              /\ response' = NoResponse
              /\ pc' = STRATEGIES[1]
         ELSE /\ page' = NoPage
              /\ pc' = "done"
              /\ response' =
                   IF v = "required"
                   THEN Resp(400, "URL parameter is required", FALSE, <<>>, FALSE)
                   ELSE IF v = "invalid"
                   THEN Resp(400, "Invalid URL format", FALSE, <<>>, FALSE)
                   ELSE Resp(500, "Invalid IPv6 URL", FALSE, <<>>, FALSE)
  /\ UNCHANGED << idx, attempt, result, driver, sessions, encoded, invoked, outcomes,
                  last, escaped, fetches, sleeps, ctVars, mdVars >>

\* a request arrives with some url parameter
scrape_request ==
  /\ pc = "idle"
  /\ \E u \in Urls : scrape_begin(u)

(***************************************************************************)
(* scrape: the loop over the strategies (lines 531-536).                   *)
(***************************************************************************)
success_predicate_never(cand) == FALSE

\* line 534: result and result.get('success')
success_predicate(cand) == IsDict(cand) /\ cand.success

\* what the strategy handed back, as the history records it
Outcome(cand) ==
  IF cand.kind = "raise" THEN "raise"
  ELSE IF IsDict(cand) /\ cand.success THEN "accepted"
  ELSE "nothing"

\* the strategy at position idx has handed back cand: lines 533-536, and
\* lines 557-562 for an exception that the strategy let through
loop_body(cand) ==
  IF cand.kind = "raise"
  THEN /\ escaped' = escaped \cup {STRATEGIES[idx]}
       /\ response' = Resp(500, "strategy exception", FALSE, <<>>, FALSE)
       /\ pc' = "done"
       /\ UNCHANGED << result, idx, sleeps >>
  ELSE /\ result' = cand
       /\ UNCHANGED << escaped, response >>
       /\ IF success_predicate(cand)
          THEN /\ pc' = "respond"
               /\ UNCHANGED << idx, sleeps >>
          ELSE /\ sleeps' = sleeps + 1
               /\ IF idx = Len(STRATEGIES)
                  THEN pc' = "respond" /\ idx' = idx
                  ELSE pc' = STRATEGIES[idx + 1] /\ idx' = idx + 1

\* history kept when the strategy at position idx returns
returned(body, cand, fetched, quits) ==
  /\ outcomes' = Append(outcomes, Outcome(cand))
  /\ last' = [ name |-> STRATEGIES[idx], raised |-> body.kind = "raise",
               fetched |-> fetched, quits |-> quits ]

(***************************************************************************)
(* The strategies as steps of the worker.                                  *)
(***************************************************************************)
run_newspaper ==
  /\ pc = "newspaper3k"
  /\ \E net \in BOOLEAN, lib \in BOOLEAN, images_set \in BOOLEAN :
       \E body \in { newspaper_body(page, net, lib, images_set) } :
         LET cand == newspaper_except(body)
         IN  /\ returned(body, cand, net, 0)
             /\ loop_body(cand)
  /\ invoked' = Append(invoked, "newspaper3k")
  /\ fetches' = fetches + 1
  /\ UNCHANGED << url, page, attempt, driver, sessions, encoded, ctVars, mdVars >>

run_trafilatura ==
  /\ pc = "trafilatura"
  /\ \E net \in BOOLEAN, lib \in BOOLEAN :
       \E body \in { trafilatura_body(page, net, lib) } :
         LET cand == trafilatura_except(body)
         IN  /\ returned(body, cand, net, 0)
             /\ loop_body(cand)
  /\ invoked' = Append(invoked, "trafilatura")
  /\ fetches' = fetches + 1
  /\ UNCHANGED << url, page, attempt, driver, sessions, encoded, ctVars, mdVars >>

run_readability ==
  /\ pc = "readability"
  /\ \E net \in BOOLEAN, lib \in BOOLEAN :
       \E body \in { readability_body(page, url, net, lib) } :
         LET cand == readability_except(body)
         IN  /\ returned(body, cand, net, 0)
             /\ loop_body(cand)
  /\ invoked' = Append(invoked, "readability")
  /\ fetches' = fetches + 1
  /\ UNCHANGED << url, page, attempt, driver, sessions, encoded, ctVars, mdVars >>

\* lines 296-308: one attempt of the retry loop; ok: the request yields a
\* response whose status raise_for_status accepts.  The third failure is
\* re-raised (line 307) into the handler of line 376
bs_request ==
  /\ pc = "beautifulsoup"
  /\ attempt < MaxAttempts
  /\ invoked' = IF attempt = 0 THEN Append(invoked, "beautifulsoup") ELSE invoked
  /\ fetches' = fetches + 1
  /\ \E ok \in BOOLEAN :
       IF ok
       THEN /\ pc' = "bs_extract"
            /\ UNCHANGED << attempt, result, idx, sleeps, escaped, response,
                            outcomes, last >>
       ELSE IF attempt = LastAttempt
       THEN /\ returned(Raised, beautifulsoup_except(Raised), FALSE, 0)
            /\ loop_body(beautifulsoup_except(Raised))
            /\ attempt' = 0
       ELSE /\ attempt' = attempt + 1
            /\ UNCHANGED << pc, result, idx, sleeps, escaped, response, outcomes, last >>
  /\ UNCHANGED << url, page, driver, sessions, encoded, ctVars, mdVars >>

\* lines 310-378
bs_extract ==
  /\ pc = "bs_extract"
  /\ \E lib \in BOOLEAN :
       \E body \in { beautifulsoup_extract(page, url, lib) } :
         LET cand == beautifulsoup_except(body)
         IN  /\ returned(body, cand, TRUE, 0)
             /\ loop_body(cand)
  /\ attempt' = 0
  /\ UNCHANGED << url, page, driver, sessions, encoded, invoked, fetches, ctVars, mdVars >>

(***************************************************************************)
(* scrape_with_selenium and the context manager get_selenium_driver.       *)
(***************************************************************************)
get_selenium_driver_quit_on_success(drv, open, exc) ==
  IF drv /\ ~exc THEN open - 1 ELSE open

\* lines 76-78: the finally clause; exc: an exception is passing through
get_selenium_driver_finally(drv, open, exc) ==
  IF drv THEN open - 1 ELSE open

\* the with block is left with outcome body: the finally clause runs, then the
\* handler of line 461, then the orchestrator goes on
selenium_exit(body) ==
  LET open == get_selenium_driver_finally(driver, sessions, body.kind = "raise")
      cand == selenium_except(body)
  IN  /\ sessions' = open
      /\ driver' = FALSE
      /\ returned(body, cand, pc \in {"sel_wait", "sel_scroll", "sel_extract"},
                  sessions - open)
      /\ loop_body(cand)

\* lines 386, 62-73: webdriver.Chrome(...)
sel_create ==
  /\ pc = "selenium"
  /\ invoked' = Append(invoked, "selenium")
  /\ \E ok \in BOOLEAN :
       IF ok
       THEN /\ driver' = TRUE
            /\ sessions' = sessions + 1
            /\ pc' = "sel_setup"
            /\ UNCHANGED << result, idx, sleeps, escaped, response, outcomes, last >>
       ELSE selenium_exit(Raised)
  /\ UNCHANGED << url, page, attempt, encoded, fetches, ctVars, mdVars >>

\* line 74: driver.execute_script(...) before the yield
sel_setup ==
  /\ pc = "sel_setup"
  /\ \E ok \in BOOLEAN :
       IF ok
       THEN /\ pc' = "sel_get"
            /\ UNCHANGED << driver, sessions, result, idx, sleeps, escaped, response,
                            outcomes, last >>
       ELSE selenium_exit(Raised)
  /\ UNCHANGED << url, page, attempt, encoded, invoked, fetches, ctVars, mdVars >>

\* line 387: driver.get(url)
sel_get ==
  /\ pc = "sel_get"
  /\ fetches' = fetches + 1
  /\ \E ok \in BOOLEAN :
       IF ok
       THEN /\ pc' = "sel_wait"
            /\ UNCHANGED << driver, sessions, result, idx, sleeps, escaped, response,
                            outcomes, last >>
       ELSE selenium_exit(Raised)
  /\ UNCHANGED << url, page, attempt, encoded, invoked, ctVars, mdVars >>

\* lines 390-395: the wait for an article element; a timeout or any other
\* failure is swallowed by the bare except, which sleeps instead
sel_wait ==
  /\ pc = "sel_wait"
  /\ pc' = "sel_scroll"
  /\ UNCHANGED << url, page, idx, attempt, result, driver, sessions, response, encoded,
                  invoked, outcomes, last, escaped, fetches, sleeps, ctVars, mdVars >>

\* lines 398-399: the scroll script
sel_scroll ==
  /\ pc = "sel_scroll"
  /\ \E ok \in BOOLEAN :
       IF ok
       THEN /\ pc' = "sel_extract"
            /\ UNCHANGED << driver, sessions, result, idx, sleeps, escaped, response,
                            outcomes, last >>
       ELSE selenium_exit(Raised)
  /\ UNCHANGED << url, page, attempt, encoded, invoked, fetches, ctVars, mdVars >>

\* lines 401-463: page_source, parsing, extraction, threshold, return
sel_extract ==
  /\ pc = "sel_extract"
  /\ \E lib \in BOOLEAN :
       \E body \in { selenium_extract(page, url, lib) } : selenium_exit(body)
  /\ UNCHANGED << url, page, attempt, encoded, invoked, fetches, ctVars, mdVars >>

run_raw ==
  /\ pc = "raw"
  /\ \E net \in BOOLEAN :
       \E body \in { raw_body(page, url, net) } :
         LET cand == raw_except(body)
         IN  /\ returned(body, cand, net, 0)
             /\ loop_body(cand)
  /\ invoked' = Append(invoked, "raw")
  /\ fetches' = fetches + 1
  /\ UNCHANGED << url, page, attempt, driver, sessions, encoded, ctVars, mdVars >>

(***************************************************************************)
(* scrape: the response (lines 538-562).                                   *)
(***************************************************************************)
terminal_failure_without_url(u) ==
  Resp(500, "All scraping methods failed", FALSE, <<>>, FALSE)

\* lines 539-543
terminal_failure(u) ==
  Resp(500, "All scraping methods failed", FALSE, u, FALSE)

\* lines 546-547: the two keys the orchestrator adds
stamp(res) == [ res EXCEPT !.keys = @ \o << "scrape_time", "timestamp" >> ]

\* lines 552-555: the loop returns in its first iteration, so only the value
\* of the first key is converted
convert_sets(res) == [ res EXCEPT !.sets = @ \ { res.keys[1] } ]

\* jsonify raises TypeError on a value that is a set
jsonify_raises(res) == res.sets # {}

respond ==
  /\ pc = "respond"
  /\ pc' = "done"
  /\ IF ~IsDict(result)
     THEN /\ response' = terminal_failure(url)
          /\ encoded' = encoded
     ELSE LET arg == convert_sets(stamp(result))
          IN  /\ encoded' = arg
              /\ response' =
                   IF jsonify_raises(arg)
                   THEN Resp(500, "Object of type set is not JSON serializable",
                             FALSE, <<>>, FALSE)
                   ELSE Resp(200, "", arg.success, <<>>, TRUE)
  /\ UNCHANGED << url, page, idx, attempt, result, driver, sessions, invoked, outcomes,
                  last, escaped, fetches, sleeps, ctVars, mdVars >>

\* the response is sent and the worker waits for the next request; nothing of
\* the request outlives it but the browser sessions left open
next_request ==
  /\ pc = "done"
  /\ pc' = "idle"
  /\ url' = <<>>
  /\ page' = NoPage
  /\ idx' = 1
  /\ attempt' = 0
  /\ result' = NoneResult
  /\ driver' = FALSE
  /\ response' = NoResponse
  /\ encoded' = NoneResult
  /\ invoked' = <<>>
  /\ outcomes' = <<>>
  /\ last' = NoLast
  /\ escaped' = {}
  /\ fetches' = 0
  /\ sleeps' = 0
  /\ UNCHANGED << sessions, ctVars, mdVars >>

Next ==
  \/ scrape_request
  \/ run_newspaper
  \/ run_trafilatura
  \/ run_readability
  \/ bs_request
  \/ bs_extract
  \/ sel_create
  \/ sel_setup
  \/ sel_get
  \/ sel_wait
  \/ sel_scroll
  \/ sel_extract
  \/ run_raw
  \/ respond
  \/ next_request

Spec == Init /\ [][Next]_vars

(***************************************************************************)
(* The normalizer on its own: clean_text applied once and twice to an      *)
(* input drawn from the strings that MaxTokens tokens make.                *)
(***************************************************************************)
CleanTokens ==
  { <<"a">>, <<" ">>, <<"\t", "\n">>,
    <<"L", "o">>, <<"g", "i", "n">>, <<"L", "o", "g", "i", "n">>,
    <<" ", "L", "O", "G", "I", "N", " ">>,
    <<"S", "i", "g", "n">>, <<"u", "p">> }

RECURSIVE Flatten(_)
Flatten(ts) == IF ts = <<>> THEN <<>> ELSE Head(ts) \o Flatten(Tail(ts))

CleanInputs == { Flatten(ts) : ts \in SeqsUpTo(CleanTokens, MaxTokens) }

InitClean ==
  /\ pc = "idle"
  /\ url = <<>>
  /\ page = NoPage
  /\ idx = 1
  /\ attempt = 0
  /\ result = NoneResult
  /\ driver = FALSE
  /\ sessions = 0
  /\ response = NoResponse
  /\ encoded = NoneResult
  /\ invoked = <<>>
  /\ outcomes = <<>>
  /\ last = NoLast
  /\ escaped = {}
  /\ fetches = 0
  /\ sleeps = 0
  /\ ctPc = "input"
  /\ ctIn \in CleanInputs
  /\ ctOnce = <<>>
  /\ ctTwice = <<>>
  /\ mdPc = "off"
  /\ mdUrl = <<>>
  /\ mdDoc = NoDoc
  /\ mdOut = NoMetadata

mainVars == << pc, url, page, idx, attempt, result, driver, sessions, response, encoded,
               invoked, outcomes, last, escaped, fetches, sleeps >>

normalize_once ==
  /\ ctPc = "input"
  /\ ctOnce' = clean_text(ctIn)
  /\ ctPc' = "once"
  /\ UNCHANGED << ctIn, ctTwice, mainVars, mdVars >>

normalize_twice ==
  /\ ctPc = "once"
  /\ ctTwice' = clean_text(ctOnce)
  /\ ctPc' = "twice"
  /\ UNCHANGED << ctIn, ctOnce, mainVars, mdVars >>

NextClean == normalize_once \/ normalize_twice

SpecClean == InitClean /\ [][NextClean]_vars

(***************************************************************************)
(* The metadata extractor on its own: extract_metadata applied to a parsed *)
(* document and the URL of its page.                                       *)
(***************************************************************************)
\* what the author selectors of lines 107-115 match: meta tags give their
\* content attribute, the other elements their text
AuthorElems ==
  { [ content |-> <<"A">>, text |-> <<>> ],
    [ content |-> None, text |-> <<" ", "A">> ],
    [ content |-> None, text |-> <<"B">> ] }

\* the keywords meta tag: absent, without content attribute, or its content
KeywordsMetas == { NoTag, None } \cup SeqsUpTo({"k", ",", " "}, MaxKwLen)

\* the og:image meta tag: absent, without content attribute, or its content
OgImages ==
  { NoTag, None, <<"/", "a">>,
    <<"h", "t", "t", "p", ":", "/", "/", "h", "/", "a">> }

\* src attributes: relative to the directory, to the root and to the scheme,
\* and one whose network location urlsplit rejects
ImgSrcs == { <<"a">>, <<"/", "a">>, <<"/", "/", "a">>, <<"/", "/", "[">> }

Docs == [ author_elems : SeqsUpTo(AuthorElems, MaxHits),
          keywords_meta : KeywordsMetas,
          og_image : OgImages,
          imgs : SeqsUpTo(ImgSrcs, MaxImgs) ]

\* the URL of a fetched page
PageUrls == { <<"h", "t", "t", "p", ":", "/", "/", "h", "/", "d", "/", "p">> }

InitMeta ==
  /\ pc = "idle"
  /\ url = <<>>
  /\ page = NoPage
  /\ idx = 1
  /\ attempt = 0
  /\ result = NoneResult
  /\ driver = FALSE
  /\ sessions = 0
  /\ response = NoResponse
  /\ encoded = NoneResult
  /\ invoked = <<>>
  /\ outcomes = <<>>
  /\ last = NoLast
  /\ escaped = {}
  /\ fetches = 0
  /\ sleeps = 0
  /\ ctPc = "off"
  /\ ctIn = <<>>
  /\ ctOnce = <<>>
  /\ ctTwice = <<>>
  /\ mdPc = "input"
  /\ mdUrl \in PageUrls
  /\ mdDoc \in Docs
  /\ mdOut = NoMetadata

extract_metadata_call ==
  /\ mdPc = "input"
  /\ mdOut' = extract_metadata(mdDoc, mdUrl)
  /\ mdPc' = "done"
  /\ UNCHANGED << mdUrl, mdDoc, mainVars, ctVars >>

NextMeta == extract_metadata_call

SpecMeta == InitMeta /\ [][NextMeta]_vars

(***************************************************************************)
(* Properties.                                                             *)
(***************************************************************************)
Accepted == pc \in {"respond", "done"} /\ IsDict(result) /\ result.success

FirstAccepted ==
  CHOOSE i \in 1..Len(outcomes) :
    /\ outcomes[i] = "accepted"
    /\ \A j \in 1..(i - 1) : outcomes[j] # "accepted"

\* C1: the strategies are invoked in the fixed order newspaper3k, trafilatura,
\* readability, beautifulsoup, selenium, raw; no strategy is invoked after one
\* whose candidate was accepted; and the result the request ends with carries
\* the method of the earliest strategy that succeeded.
C1_FixedOrderFirstSuccess ==
  /\ invoked = SubSeq(STRATEGIES, 1, Len(invoked))
  /\ \A i \in 1..Len(outcomes) : outcomes[i] = "accepted" => i = Len(invoked)
  /\ (\E i \in 1..Len(outcomes) : outcomes[i] = "accepted") =>
       /\ pc \in {"respond", "done"}
       /\ IsDict(result)
       /\ result.method = STRATEGIES[FirstAccepted]
       /\ response.status = 200 => encoded.method = STRATEGIES[FirstAccepted]

C1_Witness ==
  /\ pc = "done"
  /\ response.status = 200
  /\ encoded.method = "readability"
  /\ outcomes = << "nothing", "nothing", "accepted" >>

LacksSchemeOrNetloc(u) == urlparse_scheme(u) = <<>> \/ urlparse_netloc(u) = <<>>

\* C2: a request whose URL lacks a scheme or a network location is answered
\* with HTTP 400, error "Invalid URL format" and success false, and no strategy
\* is invoked, no fetch is made and no inter-strategy delay occurs.
C2_MalformedUrlRejected ==
  (pc = "done" /\ url # <<>> /\ LacksSchemeOrNetloc(url)) =>
    /\ response.status = 400
    /\ response.error = "Invalid URL format"
    /\ response.success = FALSE
    /\ invoked = <<>>
    /\ fetches = 0
    /\ sleeps = 0

AllNothing ==
  /\ Len(outcomes) = Len(STRATEGIES)
  /\ \A i \in 1..Len(outcomes) : outcomes[i] = "nothing"

\* C3: when every one of the six strategies returned nothing, the response is
\* the terminal failure: HTTP 500, error "All scraping methods failed", success
\* false and the original url, and no result.
C3_TerminalFailure ==
  (pc = "done" /\ AllNothing) =>
    /\ response.status = 500
    /\ response.error = "All scraping methods failed"
    /\ response.success = FALSE
    /\ response.url = url
    /\ response.has_result = FALSE
    /\ encoded = NoneResult

C3_Witness ==
  /\ pc = "done"
  /\ AllNothing
  /\ fetches = 8
  /\ ~last.fetched
  /\ response.status = 500

\* C4: no strategy lets an exception through to the orchestrator: whatever
\* raised inside it (the third failed attempt of the retry loop included), the
\* strategy returns nothing and the orchestrator goes on to the next strategy.
C4_NoStrategyPropagates ==
  /\ escaped = {}
  /\ response.error # "strategy exception"
  /\ last.raised =>
       /\ outcomes[Len(outcomes)] = "nothing"
       /\ \E i \in DOMAIN STRATEGIES :
            /\ STRATEGIES[i] = last.name
            /\ IF i < Len(STRATEGIES)
               THEN idx = i + 1 /\ pc \notin {"respond", "done"}
               ELSE pc \in {"respond", "done"}

C4_Witness ==
  /\ last.name = "beautifulsoup"
  /\ last.raised
  /\ ~last.fetched
  /\ fetches = 6
  /\ pc = "selenium"

\* the documented minimum of each strategy; raw has none
Minimum(method) ==
  IF method \in {"newspaper3k", "trafilatura", "readability"} THEN MinLenLibrary
  ELSE IF method \in {"beautifulsoup", "selenium"} THEN MinLenSoup
  ELSE -1

\* C5: the text of every accepted result is longer than the minimum of the
\* strategy that produced it: 100 for newspaper3k, trafilatura and readability,
\* 50 for beautifulsoup and selenium.
C5_TextExceedsMinimum ==
  Accepted => Len(result.text) > Minimum(result.method)

\* C6: every result that is accepted and returned has a non-empty text.
C6_ReturnedTextNonEmpty ==
  (pc = "done" /\ response.status = 200) => encoded.text # <<>>

\* C7: when the fetch of the raw strategy yields a response, the strategy
\* returns a result with success true, with title "Unknown Title" when the
\* page has no title and authors ["Unknown"] when it has no author, and the
\* request ends with that result and not with the terminal failure.
C7_TerminalFallback ==
  (last.name = "raw" /\ last.fetched) =>
    /\ pc \in {"respond", "done"}
    /\ IsDict(result)
    /\ result.success
    /\ result.method = "raw"
    /\ page.title = "" => result.title = "Unknown Title"
    /\ page.authors = <<>> => result.authors = << "Unknown" >>
    /\ pc = "done" =>
         /\ response.status = 200
         /\ response.success
         /\ response.has_result
         /\ encoded.method = "raw"

\* C8: once scrape_with_selenium has returned, by whatever path, no browser
\* session is open; while it runs, at most the one it created.
C8_BrowserReleased ==
  /\ pc \notin SeleniumPcs => sessions = 0 /\ driver = FALSE
  /\ pc \in SeleniumPcs => sessions = 1 /\ driver = TRUE

C8_Witness ==
  /\ last.name = "selenium"
  /\ last.raised
  /\ last.fetched
  /\ last.quits = 1
  /\ sessions = 0
  /\ pc = "raw"

\* C9: every set-valued field of the accepted result has been converted to a
\* list when the result is JSON-encoded.
C9_SetsConvertedBeforeEncoding ==
  IsDict(encoded) => encoded.sets = {}

\* C10: clean_text is idempotent: clean_text(clean_text(x)) = clean_text(x).
C10_CleanTextIdempotent ==
  ctPc = "twice" => ctTwice = ctOnce

NoDuplicates(xs) == \A i, j \in DOMAIN xs : xs[i] = xs[j] => i = j

\* C11: the authors, the images and the keywords that extract_metadata
\* returns each hold no value twice.
C11_ListsHoldNoDuplicates ==
  (mdPc = "done" /\ mdOut.kind = "dict") =>
    /\ NoDuplicates(mdOut.authors)
    /\ NoDuplicates(mdOut.images)
    /\ NoDuplicates(mdOut.keywords)

\* an absolute URL: a string that names a scheme and a network location
IsAbsoluteUrl(x) ==
  /\ x # None
  /\ urlparse_scheme(x) # <<>>
  /\ urlparse_netloc(x) # <<>>

\* C12: every entry of the images list that extract_metadata returns is an
\* absolute URL, whether it comes from the og:image meta tag or from an img
\* element; no relative reference and no None is stored.
C12_ImagesAreAbsolute ==
  (mdPc = "done" /\ mdOut.kind = "dict") =>
    \A i \in DOMAIN mdOut.images : IsAbsoluteUrl(mdOut.images[i])

====
